---- MODULE Spec2Model ----
(***************************************************************************)
(* A model of the gpu-info crate: the public entry point                   *)
(* retrieve_gpu_info (lib.rs), the Vulkan backend (vulkan.rs) and the      *)
(* Metal backend with its IOKit registry lookup (metal.rs).                *)
(*                                                                         *)
(* A Rust String is modelled as the sequence of its UTF-8 bytes.  A u64 is *)
(* modelled as three limbs <<hi, mid, lo>> of 24, 20 and 20 bits, so that  *)
(* 64-bit sums keep their width:  value = hi * 2^40 + mid * 2^20 + lo.     *)
(***************************************************************************)
EXTENDS Integers, Sequences, FiniteSets, TLC

VARIABLES
    target,            \* cfg(target_os): "macos" or "other"
    entry,             \* the public function that was called
    pc,                \* position of the call
    calls,             \* backend functions entered and Vulkan native calls made, each
                       \* with what it returned ("Ok" or an error code), in order
    result,            \* what the call returned
    instance,          \* the ash::Instance created by the Vulkan backend
    physical_devices,  \* vulkan.rs: result of enumerate_physical_devices
    devices,           \* metal.rs: result of MTLCopyAllDevices
    gpus,              \* the Vec being filled by the backend's loop
    cur,               \* metal.rs: locals of extract_gpu_info for the current device
    io_calls,          \* IOKit calls made by the current get_vram_via_iokit
    io_entry,          \* metal.rs: the registry service handle `entry`
    io_result,         \* metal.rs: `result` of IORegistryEntryCreateCFProperties
    properties,        \* metal.rs: `properties` out-pointer
    vram_value         \* metal.rs: what get_vram_via_iokit returns

vars == <<target, entry, pc, calls, result, instance, physical_devices, devices,
          gpus, cur, io_calls, io_entry, io_result, properties, vram_value>>

\* Longest device list a native enumeration returns in the model.
MaxDevices == 2

\* Length of the memory_heaps array (VK_MAX_MEMORY_HEAPS, scaled down).
HeapSlots == 3

-----------------------------------------------------------------------------
(* 64-bit unsigned arithmetic on limbs *)

\* 1024 * 1024, the bytes-to-MB divisor; also the base of the two low limbs.
MiB == 1048576

\* Base of the high limb: 2^24, so that MiB * MiB * HiBase = 2^64.
HiBase == MiB * 16

U64Zero == <<0, 0, 0>>

\* A natural number below 2^31 as a u64.
U64Of(n) == <<0, n \div MiB, n % MiB>>

\* a + b on u64: the wrapped value and whether the true sum left 64 bits.
U64Add(a, b) ==
    LET lo  == a[3] + b[3]
        mid == a[2] + b[2] + (lo \div MiB)
        hi  == a[1] + b[1] + (mid \div MiB)
    IN  [val |-> <<hi % HiBase, mid % MiB, lo % MiB>>, overflow |-> hi >= HiBase]

\* x / (1024 * 1024) on u64: shift right by one 20-bit limb.
DivMiB(x) == <<x[1] \div MiB, x[1] % MiB, x[2]>>

\* Iterator::sum::<u64>(): a left fold of + from 0.  `overflow` records that
\* some partial sum left 64 bits; `val` is the wrapped sum.
RECURSIVE SumU64(_)
SumU64(sizes) ==
    IF sizes = <<>> THEN [val |-> U64Zero, overflow |-> FALSE]
    ELSE LET init == SumU64(SubSeq(sizes, 1, Len(sizes) - 1))
             step == U64Add(init.val, sizes[Len(sizes)])
         IN  [val |-> step.val, overflow |-> init.overflow \/ step.overflow]

\* `mb as u64` for an i64 of magnitude below 2^31: two's-complement
\* reinterpretation, a negative i becoming 2^64 + i.
AsU64(i) ==
    IF i >= 0 THEN U64Of(i)
    ELSE LET k == (0 - i) - 1
         IN  <<HiBase - 1, (MiB - 1) - (k \div MiB), (MiB - 1) - (k % MiB)>>

-----------------------------------------------------------------------------
(* Strings *)

S_Unknown == <<85, 110, 107, 110, 111, 119, 110>>
S_Intel   == <<73, 110, 116, 101, 108>>
S_NVIDIA  == <<78, 86, 73, 68, 73, 65>>
S_AMD     == <<65, 77, 68>>
S_Apple   == <<65, 112, 112, 108, 101>>
S_Radeon  == <<82, 97, 100, 101, 111, 110>>
S_M1      == <<77, 49>>
S_M2      == <<77, 50>>
S_M3      == <<77, 51>>
S_M4      == <<77, 52>>
S_M5      == <<77, 53>>
S_Space   == <<32>>
S_Pro     == <<80, 114, 111>>
S_Card    == <<67, 97, 114, 100>>
S_GeForce == <<71, 101, 70, 111, 114, 99, 101>>

\* str::contains(pat) on byte strings.
Contains(s, pat) ==
    \E i \in 1..(Len(s) - Len(pat) + 1) : SubSeq(s, i, i + Len(pat) - 1) = pat

\* CStr::from_ptr: the bytes before the first NUL of the buffer.
RECURSIVE CStrFromPtr(_)
CStrFromPtr(buf) ==
    IF buf = <<>> \/ Head(buf) = 0 THEN <<>>
    ELSE <<Head(buf)>> \o CStrFromPtr(Tail(buf))

IsCont(b) == b >= 128 /\ b <= 191

\* CStr::to_str succeeds exactly on well-formed UTF-8.
RECURSIVE IsUtf8(_)
IsUtf8(s) ==
    IF s = <<>> THEN TRUE
    ELSE LET b == s[1]
             n == Len(s)
         IN  IF b < 128 THEN IsUtf8(Tail(s))
             ELSE IF b >= 194 /\ b <= 223
                  THEN n >= 2 /\ IsCont(s[2]) /\ IsUtf8(SubSeq(s, 3, n))
             ELSE IF b >= 224 /\ b <= 239
                  THEN /\ n >= 3
                       /\ IsCont(s[2]) /\ IsCont(s[3])
                       /\ (b = 224 => s[2] >= 160)
                       /\ (b = 237 => s[2] <= 159)
                       /\ IsUtf8(SubSeq(s, 4, n))
             ELSE IF b >= 240 /\ b <= 244
                  THEN /\ n >= 4
                       /\ IsCont(s[2]) /\ IsCont(s[3]) /\ IsCont(s[4])
                       /\ (b = 240 => s[2] >= 144)
                       /\ (b = 244 => s[2] <= 143)
                       /\ IsUtf8(SubSeq(s, 5, n))
             ELSE FALSE

\* Decimal formatting of a natural number ("{}").
RECURSIVE ToDecimal(_)
ToDecimal(n) ==
    IF n < 10 THEN <<48 + n>>
    ELSE ToDecimal(n \div 10) \o <<48 + (n % 10)>>

-----------------------------------------------------------------------------
(* Results and errors (lib.rs) *)

NoResult == [tag |-> "None"]
Ok(v)    == [tag |-> "Ok", gpus |-> v]
Err(e)   == [tag |-> "Err", err |-> e]
Panic    == [tag |-> "Panic"]

VulkanNotSupported       == [variant |-> "VulkanNotSupported"]
VulkanOperationFailed(m) == [variant |-> "VulkanOperationFailed", msg |-> m]
MetalNotSupported        == [variant |-> "NotSupported"]
ErrorMetal(e)            == [variant |-> "Metal", source |-> e]

is_vulkan_not_supported(e) == e.variant = "VulkanNotSupported"

is_not_supported(e) == e.variant = "NotSupported"

-----------------------------------------------------------------------------
(* The Vulkan backend (vulkan.rs) *)

\* vk::Result error codes a native call can return, and their Display text.
VkErrors ==
    {"ERROR_OUT_OF_HOST_MEMORY", "ERROR_INITIALIZATION_FAILED", "ERROR_INCOMPATIBLE_DRIVER"}

VkToString(e) ==
    CASE e = "ERROR_OUT_OF_HOST_MEMORY"    -> "A host memory allocation has failed"
      [] e = "ERROR_INITIALIZATION_FAILED" -> "Initialization of an object has failed"
      [] e = "ERROR_INCOMPATIBLE_DRIVER"   -> "Unable to find a Vulkan driver"

NoGpusMessage == "No Vulkan-compatible GPUs found."

Heap(size, flags) == [size |-> size, flags |-> flags]

\* A memory_heaps array: the given heaps, then slots the driver did not
\* write, here holding a stale device-local entry.
PadHeaps(hs) ==
    hs \o [i \in 1..(HeapSlots - Len(hs)) |-> Heap(<<0, 1024, 0>>, {"DEVICE_LOCAL"})]

MemProps(count, hs) == [memory_heap_count |-> count, memory_heaps |-> PadHeaps(hs)]

\* Memory layouts the native API reports in the model.
VkMemoryPool ==
    { MemProps(2, <<Heap(<<0, 4096, 0>>, {"DEVICE_LOCAL"}), Heap(<<0, 1024, 0>>, {})>>),
      MemProps(1, <<Heap(<<0, 4096, 0>>, {"DEVICE_LOCAL"})>>),
      MemProps(2, <<Heap(<<0, 0, 1>>, {"DEVICE_LOCAL"}),
                    Heap(<<0, 0, MiB - 1>>, {"DEVICE_LOCAL", "MULTI_INSTANCE"})>>),
      MemProps(0, <<>>),
      MemProps(2, <<Heap(<<0, 512, 0>>, {"MULTI_INSTANCE"}), Heap(<<0, 2048, 7>>, {})>>),
      MemProps(2, <<Heap(<<HiBase \div 2, 0, 0>>, {"DEVICE_LOCAL"}),
                    Heap(<<HiBase \div 2, 0, 0>>, {"DEVICE_LOCAL"})>>) }

\* device_name buffers: NUL-terminated, possibly with bytes after the NUL.
VkNamePool ==
    { S_NVIDIA \o <<0>>,
      <<65, 0, 66>>,
      <<0, 66>>,
      <<255, 0>>,
      <<195, 169, 0>>,
      <<195, 0>> }

VkVendorIdPool == {32902, 4318, 4098, 5045}

VkDeviceTypePool == {"OTHER", "INTEGRATED_GPU", "DISCRETE_GPU", "VIRTUAL_GPU", "CPU"}

VkDriverVersionPool == {0, 4198400, 2147483647}

VkBaseDevice ==
    [device_name    |-> S_NVIDIA \o <<0>>,
     vendor_id      |-> 4318,
     driver_version |-> 4198400,
     device_type    |-> "DISCRETE_GPU",
     memory         |-> MemProps(2, <<Heap(<<0, 4096, 0>>, {"DEVICE_LOCAL"}),
                                      Heap(<<0, 1024, 0>>, {})>>)]

\* Physical devices of the model: the base device varied in one field at a time.
VkDevicePool ==
    {[VkBaseDevice EXCEPT !.device_name = n] : n \in VkNamePool}
    \cup {[VkBaseDevice EXCEPT !.vendor_id = v] : v \in VkVendorIdPool}
    \cup {[VkBaseDevice EXCEPT !.device_type = t] : t \in VkDeviceTypePool}
    \cup {[VkBaseDevice EXCEPT !.driver_version = d] : d \in VkDriverVersionPool}
    \cup {[VkBaseDevice EXCEPT !.memory = m] : m \in VkMemoryPool}

SeqsUpTo(S, n) == UNION {[1..k -> S] : k \in 0..n}

\* vulkan.rs 37-40
VkDeviceName(buf) ==
    LET bytes == CStrFromPtr(buf)
    IN  IF IsUtf8(bytes) THEN bytes ELSE S_Unknown

\* vulkan.rs 42-49
VkVendorName(vendor_id) ==
    CASE vendor_id = 32902 -> S_Intel
      [] vendor_id = 4318  -> S_NVIDIA
      [] vendor_id = 4098  -> S_AMD
      [] OTHER             -> S_Unknown

\* vulkan.rs 51-56
VkDriverVersion(v) ==
    ToDecimal((v \div 4194304) % 1024) \o <<46>>
        \o ToDecimal((v \div 4096) % 1024) \o <<46>>
        \o ToDecimal(v % 4096)

\* vulkan.rs 58-64
VkDeviceType(t) ==
    CASE t = "INTEGRATED_GPU" -> "Integrated"
      [] t = "DISCRETE_GPU"   -> "Discrete"
      [] t = "VIRTUAL_GPU"    -> "Virtual"
      [] t = "CPU"            -> "CPU"
      [] OTHER                -> "Unknown"

\* Iterator::take(n)
Take(s, n) == SubSeq(s, 1, IF n < Len(s) THEN n ELSE Len(s))

\* Iterator::filter(p) followed by map(|heap| heap.size)
RECURSIVE DeviceLocalSizes(_)
DeviceLocalSizes(hs) ==
    IF hs = <<>> THEN <<>>
    ELSE (IF "DEVICE_LOCAL" \in Head(hs).flags THEN <<Head(hs).size>> ELSE <<>>)
         \o DeviceLocalSizes(Tail(hs))

\* vulkan.rs 66-72: vram_size, with whether the sum left 64 bits
VkVramSize(mem) == SumU64(DeviceLocalSizes(Take(mem.memory_heaps, mem.memory_heap_count)))

\* vulkan.rs 75-83
VkGpu(d) ==
    [kind           |-> VkDeviceType(d.device_type),
     name           |-> VkDeviceName(d.device_name),
     vendor         |-> VkVendorName(d.vendor_id),
     driver_version |-> VkDriverVersion(d.driver_version),
     vram           |-> DivMiB(VkVramSize(d.memory).val),
     clock_speed    |-> "None",
     temperature    |-> "None"]

\* An entry of `calls`.
Call(fn, ret) == [fn |-> fn, ret |-> ret]

Return(r) ==
    /\ result' = r
    /\ pc' = "done"

\* vulkan.rs 8: ash::Entry::load()
VkLoad ==
    /\ pc = "vk_load"
    /\ \/ /\ calls' = Append(calls, Call("Entry::load", "LoadingError"))
          /\ Return(Err(VulkanNotSupported))
       \/ /\ calls' = Append(calls, Call("Entry::load", "Ok"))
          /\ pc' = "vk_create"
          /\ result' = result
    /\ UNCHANGED <<target, entry, instance, physical_devices, devices, gpus, cur,
                   io_calls, io_entry, io_result, properties, vram_value>>

\* vulkan.rs 18-19: entry.create_instance(&create_info, None)
VkCreateInstance ==
    /\ pc = "vk_create"
    /\ \/ \E e \in VkErrors :
            /\ calls' = Append(calls, Call("create_instance", e))
            /\ Return(Err(VulkanOperationFailed(VkToString(e))))
            /\ instance' = instance
       \/ /\ calls' = Append(calls, Call("create_instance", "Ok"))
          /\ instance' = "created"
          /\ pc' = "vk_enumerate"
          /\ result' = result
    /\ UNCHANGED <<target, entry, physical_devices, devices, gpus, cur,
                   io_calls, io_entry, io_result, properties, vram_value>>

\* vulkan.rs 21-22: instance.enumerate_physical_devices()
VkEnumerate ==
    /\ pc = "vk_enumerate"
    /\ \/ \E e \in VkErrors :
            /\ calls' = Append(calls, Call("enumerate_physical_devices", e))
            /\ Return(Err(VulkanOperationFailed(VkToString(e))))
            /\ physical_devices' = physical_devices
       \/ \E ds \in SeqsUpTo(VkDevicePool, MaxDevices) :
            /\ calls' = Append(calls, Call("enumerate_physical_devices", "Ok"))
            /\ physical_devices' = ds
            /\ pc' = "vk_check"
            /\ result' = result
    /\ UNCHANGED <<target, entry, instance, devices, gpus, cur,
                   io_calls, io_entry, io_result, properties, vram_value>>

\* VkCheckEmpty without the is_empty() check of lines 24-28.
VkCheckEmpty_NoEmptyCheck ==
    /\ pc = "vk_check"
    /\ gpus' = <<>>
    /\ pc' = "vk_loop"
    /\ UNCHANGED <<target, entry, calls, result, instance, physical_devices, devices, cur,
                   io_calls, io_entry, io_result, properties, vram_value>>

\* vulkan.rs 24-30
VkCheckEmpty ==
    /\ pc = "vk_check"
    /\ IF physical_devices = <<>>
       THEN /\ Return(Err(VulkanOperationFailed(NoGpusMessage)))
            /\ gpus' = gpus
       ELSE /\ gpus' = <<>>
            /\ pc' = "vk_loop"
            /\ result' = result
    /\ UNCHANGED <<target, entry, calls, instance, physical_devices, devices, cur,
                   io_calls, io_entry, io_result, properties, vram_value>>

\* vulkan.rs 32-86: one iteration of the loop over physical_devices.  The sum
\* of line 72 panics when it overflows in a build with overflow checks and
\* wraps in a build without them.
VkDevice ==
    /\ pc = "vk_loop"
    /\ Len(gpus) < Len(physical_devices)
    /\ LET device == physical_devices[Len(gpus) + 1]
       IN  /\ calls' = calls \o <<Call("get_physical_device_properties", "Ok"),
                                  Call("get_physical_device_memory_properties", "Ok")>>
           /\ \/ /\ VkVramSize(device.memory).overflow
                 /\ Return(Panic)
                 /\ gpus' = gpus
              \/ /\ gpus' = Append(gpus, VkGpu(device))
                 /\ UNCHANGED <<pc, result>>
    /\ UNCHANGED <<target, entry, instance, physical_devices, devices, cur,
                   io_calls, io_entry, io_result, properties, vram_value>>

\* vulkan.rs 88: Ok(gpus).  `entry` and `instance` go out of scope here;
\* ash::Instance has no Drop and the function never calls destroy_instance.
VkReturn ==
    /\ pc = "vk_loop"
    /\ Len(gpus) = Len(physical_devices)
    /\ Return(Ok(gpus))
    /\ UNCHANGED <<target, entry, calls, instance, physical_devices, devices, gpus, cur,
                   io_calls, io_entry, io_result, properties, vram_value>>

\* vulkan.rs 3-5
is_vulkan_supported ==
    /\ pc = "idle"
    /\ target = "other"
    /\ entry' = "is_vulkan_supported"
    /\ \E ret \in {"Ok", "LoadingError"} :
         /\ calls' = Append(calls, Call("Entry::load", ret))
         /\ Return([tag |-> "Bool", value |-> (ret = "Ok")])
    /\ UNCHANGED <<target, instance, physical_devices, devices, gpus, cur,
                   io_calls, io_entry, io_result, properties, vram_value>>

\* vulkan.rs 7: the backend's own entry point, compiled on non-macOS targets
retrieve_gpu_info_via_vk ==
    /\ pc = "idle"
    /\ target = "other"
    /\ entry' = "retrieve_gpu_info_via_vk"
    /\ calls' = Append(calls, Call("retrieve_gpu_info_via_vk", "Ok"))
    /\ pc' = "vk_load"
    /\ UNCHANGED <<target, result, instance, physical_devices, devices, gpus, cur,
                   io_calls, io_entry, io_result, properties, vram_value>>

-----------------------------------------------------------------------------
(* The Metal backend (metal.rs) *)

None == [some |-> FALSE]
Some(v) == [some |-> TRUE, v |-> v]

\* Option::unwrap_or
UnwrapOr(o, default) == IF o.some THEN o.v ELSE default

NoCur == [none |-> TRUE]

\* A null `properties` pointer, and a pointer to a property dictionary.
NullPtr == [null |-> TRUE]
DictPtr(d) == [null |-> FALSE, dict |-> d]

\* metal.rs 184
keys == <<"VRAM,totalMB", "VRAM", "VRAM,total">>

\* What a registry dictionary holds under a key: nothing, a value that is
\* not a CFNumber, a CFNumber with no i64 value, or a CFNumber with one.
Absent      == [present |-> FALSE]
CFStringVal == [present |-> TRUE, number |-> FALSE]
CFNumberNoI64 == [present |-> TRUE, number |-> TRUE, as_i64 |-> None]
CFNumberVal(i) == [present |-> TRUE, number |-> TRUE, as_i64 |-> Some(i)]

\* The integer a key holds when it holds one (distinct per key, one negative).
RegistryNumber(k) ==
    CASE k = "VRAM,totalMB" -> 4096
      [] k = "VRAM"         -> 0 - 1
      [] k = "VRAM,total"   -> 2147483647

RegistryDicts ==
    { d \in [{keys[i] : i \in 1..Len(keys)} ->
                {Absent, CFStringVal, CFNumberNoI64} \cup
                {CFNumberVal(RegistryNumber(keys[i])) : i \in 1..Len(keys)}] :
        \A k \in DOMAIN d : d[k].present /\ d[k].number /\ d[k].as_i64.some
                               => d[k].as_i64.v = RegistryNumber(k) }

\* A dictionary left behind by a property retrieval that reports failure.
FailedDict == [k \in {keys[i] : i \in 1..Len(keys)} |-> CFNumberVal(RegistryNumber(k))]

\* Devices of the model: a base device varied in one group of properties at
\* a time.  location ranges over the four values MTLDeviceLocation defines.
MtlLocations == {"BuiltIn", "Slot", "External", "Unspecified"}

MtlNamePool ==
    { S_Apple \o S_Space \o S_M2 \o S_Space \o S_Pro,
      S_NVIDIA \o S_Space \o S_GeForce,
      S_Card,
      <<>>,
      <<97, 112, 112, 108, 101>>,
      S_M5,
      S_Intel \o S_Space \o S_Apple,
      S_Radeon \o S_Space \o S_NVIDIA }

MtlBaseDevice ==
    [name                         |-> S_Apple \o S_Space \o S_M2 \o S_Space \o S_Pro,
     isRemovable                  |-> FALSE,
     isHeadless                   |-> FALSE,
     isLowPower                   |-> FALSE,
     registryID                   |-> 1,
     location                     |-> "BuiltIn",
     hasUnifiedMemory             |-> TRUE,
     maxThreadsPerThreadgroup     |-> <<1024, 1024, 1024>>,
     recommendedMaxWorkingSetSize |-> <<0, 8192, 0>>]

MtlDevicePool ==
    {[MtlBaseDevice EXCEPT !.name = n] : n \in MtlNamePool}
    \cup {[MtlBaseDevice EXCEPT !.isLowPower = lp, !.isRemovable = rm, !.location = loc] :
            lp \in BOOLEAN, rm \in BOOLEAN, loc \in MtlLocations}
    \cup {[MtlBaseDevice EXCEPT !.recommendedMaxWorkingSetSize = w] :
            w \in {<<0, 0, MiB - 1>>, <<HiBase - 1, MiB - 1, MiB - 1>>}}
    \cup {[MtlBaseDevice EXCEPT !.hasUnifiedMemory = FALSE, !.registryID = 2,
                                !.isHeadless = TRUE,
                                !.recommendedMaxWorkingSetSize = w] :
            w \in {<<0, 8192, 5>>, <<0, 0, MiB - 1>>}}

\* metal.rs 64-74
LocationFrom(location) ==
    CASE location = "BuiltIn"     -> "BuiltIn"
      [] location = "Slot"        -> "Slot"
      [] location = "External"    -> "External"
      [] location = "Unspecified" -> "Unspecified"

\* Kind with the removable test placed before the low-power test.
Kind_RemovableFirst(is_low_power, is_removable, location) ==
    IF is_removable THEN "Discrete"
    ELSE IF is_low_power THEN "Integrated"
    ELSE IF location = "BuiltIn" THEN "Integrated"
    ELSE "Discrete"

\* metal.rs 101-109
Kind(is_low_power, is_removable, location) ==
    IF is_low_power THEN "Integrated"
    ELSE IF is_removable THEN "Discrete"
    ELSE IF location = "BuiltIn" THEN "Integrated"
    ELSE "Discrete"

\* metal.rs 207-225
detect_vendor(name) ==
    IF \/ Contains(name, S_Apple)
       \/ Contains(name, S_M1)
       \/ Contains(name, S_M2)
       \/ Contains(name, S_M3)
       \/ Contains(name, S_M4)
       \/ Contains(name, S_M5)
    THEN S_Apple
    ELSE IF Contains(name, S_Intel) THEN S_Intel
    ELSE IF Contains(name, S_AMD) \/ Contains(name, S_Radeon) THEN S_AMD
    ELSE IF Contains(name, S_NVIDIA) THEN S_NVIDIA
    ELSE S_Unknown

\* metal.rs 94-113: the locals of extract_gpu_info before calculate_vram
ExtractLocals(device) ==
    [name                        |-> device.name,
     is_removable                |-> device.isRemovable,
     is_headless                 |-> device.isHeadless,
     is_low_power                |-> device.isLowPower,
     registry_id                 |-> device.registryID,
     location                    |-> LocationFrom(device.location),
     has_unified_memory          |-> device.hasUnifiedMemory,
     kind                        |-> Kind(device.isLowPower, device.isRemovable,
                                          LocationFrom(device.location)),
     vendor                      |-> detect_vendor(device.name),
     max_threads_per_threadgroup |-> device.maxThreadsPerThreadgroup,
     recommended_max_working_set |-> device.recommendedMaxWorkingSetSize]

\* metal.rs 117-130
MetalGpu(l, vram) ==
    [kind                        |-> l.kind,
     name                        |-> l.name,
     vendor                      |-> l.vendor,
     vram                        |-> vram,
     is_removable                |-> l.is_removable,
     is_headless                 |-> l.is_headless,
     registry_id                 |-> l.registry_id,
     location                    |-> l.location,
     has_unified_memory          |-> l.has_unified_memory,
     max_threads_per_threadgroup |-> l.max_threads_per_threadgroup,
     recommended_max_working_set |-> l.recommended_max_working_set]

\* metal.rs 33-45: impl From<MetalGpu> for GPU
GpuFrom(gpu) ==
    [kind           |-> gpu.kind,
     name           |-> gpu.name,
     vendor         |-> gpu.vendor,
     driver_version |-> S_Unknown,
     vram           |-> gpu.vram,
     clock_speed    |-> "None",
     temperature    |-> "None"]

\* ScanKeys without the `break`: the last key holding an integer wins.
RECURSIVE ScanKeys_NoBreak(_, _)
ScanKeys_NoBreak(dict, i) ==
    IF i > Len(keys) THEN None
    ELSE LET value == dict[keys[i]]
             later == ScanKeys_NoBreak(dict, i + 1)
         IN  IF later.some THEN later
             ELSE IF value.present /\ value.number /\ value.as_i64.some
                  THEN Some(AsU64(value.as_i64.v))
                  ELSE None

\* metal.rs 187-197: the loop over keys, from key i on
RECURSIVE ScanKeys(_, _)
ScanKeys(dict, i) ==
    IF i > Len(keys) THEN None
    ELSE LET value == dict[keys[i]]
         IN  IF value.present /\ value.number /\ value.as_i64.some
             THEN Some(AsU64(value.as_i64.v))
             ELSE ScanKeys(dict, i + 1)

\* Retained::from_raw: None exactly for a null pointer
FromRaw(ptr) == IF ptr.null THEN None ELSE Some(ptr.dict)

\* metal.rs 180-202: the value get_vram_via_iokit returns once it holds the
\* handle (line 181 returns None when from_raw gives None)
ReadVram(res, props) ==
    IF res = 0 /\ ~props.null
    THEN IF FromRaw(props).some THEN ScanKeys(FromRaw(props).v, 1) ELSE None
    ELSE None

\* How the public function that was called passes on the Metal backend's
\* result: retrieve_gpu_info applies `?` (From<MetalError>) and maps each
\* record into a GPU (lib.rs 84-87).
MetalErr(e) == IF entry = "retrieve_gpu_info" THEN Err(ErrorMetal(e)) ELSE Err(e)

MetalOk(v) ==
    IF entry = "retrieve_gpu_info" THEN Ok([i \in 1..Len(v) |-> GpuFrom(v[i])]) ELSE Ok(v)

\* metal.rs 77-83
MtlCopyAllDevices ==
    /\ pc = "mtl_copy"
    /\ \E ds \in SeqsUpTo(MtlDevicePool, MaxDevices) :
         /\ devices' = ds
         /\ IF ds = <<>>
            THEN /\ Return(MetalErr(MetalNotSupported))
                 /\ gpus' = gpus
            ELSE /\ gpus' = <<>>
                 /\ pc' = "mtl_extract"
                 /\ result' = result
    /\ UNCHANGED <<target, entry, calls, instance, physical_devices, cur,
                   io_calls, io_entry, io_result, properties, vram_value>>

\* metal.rs 85-88, 93-114, 133-141: one device; with unified memory
\* calculate_vram returns at once and the record is pushed
MtlExtract ==
    /\ pc = "mtl_extract"
    /\ Len(gpus) < Len(devices)
    /\ LET l == ExtractLocals(devices[Len(gpus) + 1])
       IN  IF l.has_unified_memory
           THEN /\ gpus' = Append(gpus, MetalGpu(l, DivMiB(l.recommended_max_working_set)))
                /\ UNCHANGED <<pc, cur>>
           ELSE /\ cur' = l
                /\ pc' = "io_matching"
                /\ gpus' = gpus
    /\ io_calls' = <<>>
    /\ io_entry' = 0
    /\ io_result' = 0
    /\ properties' = NullPtr
    /\ vram_value' = None
    /\ UNCHANGED <<target, entry, calls, result, instance, physical_devices, devices>>

\* metal.rs 155-159: IORegistryEntryIDMatching(registry_id)?  The downcast of
\* the matching dictionary to CFDictionary (line 157) always succeeds, the
\* value being a dictionary.
IoEntryIDMatching ==
    /\ pc = "io_matching"
    /\ io_calls' = Append(io_calls, "IORegistryEntryIDMatching")
    /\ \/ /\ vram_value' = None
          /\ pc' = "mtl_push"
       \/ /\ vram_value' = vram_value
          /\ pc' = "io_get_service"
    /\ UNCHANGED <<target, entry, calls, result, instance, physical_devices, devices,
                   gpus, cur, io_entry, io_result, properties>>

\* metal.rs 160-167: IOServiceGetMatchingService; a non-zero entry arms the
\* deferred IOObjectRelease
IoGetMatchingService ==
    /\ pc = "io_get_service"
    /\ io_calls' = Append(io_calls, "IOServiceGetMatchingService")
    /\ \E e \in {0, 4099} :
         /\ io_entry' = e
         /\ IF e = 0
            THEN /\ vram_value' = None
                 /\ pc' = "mtl_push"
            ELSE /\ vram_value' = vram_value
                 /\ pc' = "io_create_properties"
    /\ UNCHANGED <<target, entry, calls, result, instance, physical_devices, devices,
                   gpus, cur, io_result, properties>>

\* metal.rs 169-178: IORegistryEntryCreateCFProperties
IoCreateCFProperties ==
    /\ pc = "io_create_properties"
    /\ io_calls' = Append(io_calls, "IORegistryEntryCreateCFProperties")
    /\ \/ /\ io_result' = 0
          /\ \E p \in {NullPtr} \cup {DictPtr(d) : d \in RegistryDicts} : properties' = p
       \/ /\ io_result' = 5
          /\ \E p \in {NullPtr, DictPtr(FailedDict)} :
               properties' = p
    /\ pc' = "io_scan"
    /\ UNCHANGED <<target, entry, calls, result, instance, physical_devices, devices,
                   gpus, cur, io_entry, vram_value>>

\* IoScan with the handle released only where a dictionary was read: the
\* failure paths return without IOObjectRelease.
IoScan_ReleaseOnSuccessOnly ==
    /\ pc = "io_scan"
    /\ vram_value' = ReadVram(io_result, properties)
    /\ properties' = NullPtr
    /\ pc' = IF io_result = 0 /\ ~properties.null THEN "io_release" ELSE "mtl_push"
    /\ UNCHANGED <<target, entry, calls, result, instance, physical_devices, devices,
                   gpus, cur, io_calls, io_entry, io_result>>

\* metal.rs 180-202: compute `vram`; the dictionary is dropped with the block
IoScan ==
    /\ pc = "io_scan"
    /\ vram_value' = ReadVram(io_result, properties)
    /\ properties' = NullPtr
    /\ pc' = "io_release"
    /\ UNCHANGED <<target, entry, calls, result, instance, physical_devices, devices,
                   gpus, cur, io_calls, io_entry, io_result>>

\* metal.rs 165-167, 204-205: the deferred IOObjectRelease(entry) runs as the
\* function returns
IoRelease ==
    /\ pc = "io_release"
    /\ io_calls' = Append(io_calls, "IOObjectRelease")
    /\ pc' = "mtl_push"
    /\ UNCHANGED <<target, entry, calls, result, instance, physical_devices, devices,
                   gpus, cur, io_entry, io_result, properties, vram_value>>

\* MtlPush with the lookup's None propagated as a failure of the call
\* instead of replaced by the fallback.
MtlPush_PropagatesLookupFailure ==
    /\ pc = "mtl_push"
    /\ IF vram_value.some
       THEN /\ gpus' = Append(gpus, MetalGpu(cur, vram_value.v))
            /\ pc' = "mtl_extract"
            /\ result' = result
       ELSE /\ Return(Err(MetalNotSupported))
            /\ gpus' = gpus
    /\ cur' = NoCur
    /\ UNCHANGED <<target, entry, calls, instance, physical_devices, devices,
                   io_calls, io_entry, io_result, properties, vram_value>>

\* metal.rs 142, 117-130, 87: unwrap_or the fallback, build the record, push it
MtlPush ==
    /\ pc = "mtl_push"
    /\ gpus' = Append(gpus, MetalGpu(cur, UnwrapOr(vram_value,
                                          DivMiB(cur.recommended_max_working_set))))
    /\ cur' = NoCur
    /\ pc' = "mtl_extract"
    /\ UNCHANGED <<target, entry, calls, result, instance, physical_devices, devices,
                   io_calls, io_entry, io_result, properties, vram_value>>

\* metal.rs 90: Ok(gpus)
MtlReturn ==
    /\ pc = "mtl_extract"
    /\ Len(gpus) = Len(devices)
    /\ Return(MetalOk(gpus))
    /\ UNCHANGED <<target, entry, calls, instance, physical_devices, devices, gpus, cur,
                   io_calls, io_entry, io_result, properties, vram_value>>

\* metal.rs 76: the backend's own entry point, compiled on macOS
retrieve_gpu_info_via_metal ==
    /\ pc = "idle"
    /\ target = "macos"
    /\ entry' = "retrieve_gpu_info_via_metal"
    /\ calls' = Append(calls, Call("retrieve_gpu_info_via_metal", "Ok"))
    /\ pc' = "mtl_copy"
    /\ UNCHANGED <<target, result, instance, physical_devices, devices, gpus, cur,
                   io_calls, io_entry, io_result, properties, vram_value>>

-----------------------------------------------------------------------------
(* The public entry point (lib.rs) *)

\* lib.rs 82-93: on macOS the Metal backend is called; on every other target
\* `gpus` is Vec::new() and no backend is called
retrieve_gpu_info ==
    /\ pc = "idle"
    /\ entry' = "retrieve_gpu_info"
    /\ IF target = "macos"
       THEN /\ calls' = Append(calls, Call("retrieve_gpu_info_via_metal", "Ok"))
            /\ pc' = "mtl_copy"
            /\ result' = result
       ELSE /\ calls' = calls
            /\ Return(Ok(<<>>))
    /\ UNCHANGED <<target, instance, physical_devices, devices, gpus, cur,
                   io_calls, io_entry, io_result, properties, vram_value>>

Init ==
    /\ target \in {"macos", "other"}
    /\ entry = "none"
    /\ pc = "idle"
    /\ calls = <<>>
    /\ result = NoResult
    /\ instance = "none"
    /\ physical_devices = <<>>
    /\ devices = <<>>
    /\ gpus = <<>>
    /\ cur = NoCur
    /\ io_calls = <<>>
    /\ io_entry = 0
    /\ io_result = 0
    /\ properties = NullPtr
    /\ vram_value = None

Next ==
    \/ retrieve_gpu_info
    \/ retrieve_gpu_info_via_vk
    \/ is_vulkan_supported
    \/ VkLoad
    \/ VkCreateInstance
    \/ VkEnumerate
    \/ VkCheckEmpty
    \/ VkDevice
    \/ VkReturn
    \/ retrieve_gpu_info_via_metal
    \/ MtlCopyAllDevices
    \/ MtlExtract
    \/ IoEntryIDMatching
    \/ IoGetMatchingService
    \/ IoCreateCFProperties
    \/ IoScan
    \/ IoRelease
    \/ MtlPush
    \/ MtlReturn

Spec == Init /\ [][Next]_vars

-----------------------------------------------------------------------------
(* Properties *)

Done == pc = "done"

BackendFns == {"retrieve_gpu_info_via_metal", "retrieve_gpu_info_via_vk"}

IsBackendCall(c) == c.fn \in BackendFns

Last(s) == s[Len(s)]

IoPcs == {"io_matching", "io_get_service", "io_create_properties", "io_scan", "io_release"}

\* C1: when retrieve_gpu_info has returned, exactly one backend was called,
\* Metal on macOS and Vulkan on every other target, and the result is a typed
\* failure or Ok with a non-empty list.
C1_DelegatesAndNeverEmpty ==
    (Done /\ entry = "retrieve_gpu_info") =>
        /\ SelectSeq(calls, IsBackendCall) =
              <<Call(IF target = "macos" THEN "retrieve_gpu_info_via_metal"
                                         ELSE "retrieve_gpu_info_via_vk", "Ok")>>
        /\ \/ result.tag = "Err"
           \/ result.tag = "Ok" /\ result.gpus # <<>>

C3_OkOrNotSupported ==
    (Done /\ entry = "retrieve_gpu_info_via_vk") =>
        \/ result.tag = "Ok" /\ result.gpus # <<>>
        \/ result.tag = "Err" /\ is_vulkan_not_supported(result.err)

\* C4: when retrieve_gpu_info_via_metal has returned, the result is
\* Err(NotSupported) exactly when the native query returned no device, and is
\* otherwise Ok with one record per native device in native order; during the
\* call no per-device step sets a result.
C4_MetalFailsOnlyOnNoDevices ==
    (entry = "retrieve_gpu_info_via_metal") =>
        /\ Done =>
             /\ result.tag \in {"Ok", "Err"}
             /\ (result.tag = "Err") <=> (devices = <<>>)
             /\ result.tag = "Err" => result = Err(MetalNotSupported)
                                        /\ is_not_supported(result.err)
             /\ result.tag = "Ok" =>
                  /\ Len(result.gpus) = Len(devices)
                  /\ \A i \in 1..Len(devices) :
                       /\ result.gpus[i].name = devices[i].name
                       /\ result.gpus[i].registry_id = devices[i].registryID
                       /\ result.gpus[i].is_removable = devices[i].isRemovable
                       /\ result.gpus[i].is_headless = devices[i].isHeadless
                       /\ result.gpus[i].location = devices[i].location
                       /\ result.gpus[i].has_unified_memory = devices[i].hasUnifiedMemory
                       /\ result.gpus[i].recommended_max_working_set =
                              devices[i].recommendedMaxWorkingSetSize
        /\ (pc \in IoPcs \cup {"mtl_extract", "mtl_push"}) => result = NoResult

\* C4 witness: two different devices were returned in order, the second one
\* after its registry lookup gave nothing.
C4_Witness ==
    /\ Done
    /\ entry = "retrieve_gpu_info_via_metal"
    /\ result.tag = "Ok"
    /\ Len(result.gpus) = 2
    /\ devices[1].name # devices[2].name
    /\ ~devices[2].hasUnifiedMemory
    /\ ~vram_value.some
    /\ io_entry # 0

\* C5: every descriptor in a returned list has a non-empty vendor and a
\* non-empty name.
C5_NameAndVendorNonEmpty ==
    (Done /\ result.tag = "Ok") =>
        \A i \in 1..Len(result.gpus) :
            /\ result.gpus[i].vendor # <<>>
            /\ result.gpus[i].name # <<>>

\* C6: when retrieve_gpu_info_via_vk has returned, by whichever path, no
\* created Vulkan instance is left undestroyed.
C6_InstanceReleased ==
    (Done /\ "retrieve_gpu_info_via_vk" \in {calls[i].fn : i \in 1..Len(calls)}) =>
        instance # "created"

Releases == Len(SelectSeq(io_calls, LAMBDA c : c = "IOObjectRelease"))

\* C7: while get_vram_via_iokit runs, the handle has not been released; once
\* it has returned, IOObjectRelease was called exactly once if a handle was
\* acquired (entry != 0), as the last IOKit call, and not at all otherwise.
C7_HandleReleasedOnce ==
    (target = "macos") =>
        IF pc \in IoPcs
        THEN Releases = 0
        ELSE IF io_entry # 0
             THEN Releases = 1 /\ Last(io_calls) = "IOObjectRelease"
             ELSE Releases = 0

\* C7 witness: a handle was acquired, the property retrieval failed, and the
\* function has returned after one release.
C7_Witness ==
    /\ pc = "mtl_push"
    /\ io_entry # 0
    /\ io_result # 0
    /\ Releases = 1

C8_Keys == <<"VRAM,totalMB", "VRAM", "VRAM,total">>

\* The keys of a dictionary that hold a number with an integer value.
C8_Numeric(dict) ==
    {i \in 1..3 : /\ dict[C8_Keys[i]].present
                  /\ dict[C8_Keys[i]].number
                  /\ dict[C8_Keys[i]].as_i64.some}

C8_Lookup(res, props) ==
    IF res # 0 \/ props.null \/ C8_Numeric(props.dict) = {}
    THEN None
    ELSE LET first == CHOOSE i \in C8_Numeric(props.dict) :
                          \A j \in C8_Numeric(props.dict) : i <= j
         IN  Some(AsU64(props.dict[C8_Keys[first]].as_i64.v))

C8_Step ==
    /\ (pc = "mtl_extract" /\ pc' # "done") =>
          LET d == devices[Len(gpus) + 1]
          IN  IF d.hasUnifiedMemory
              THEN /\ Len(gpus') = Len(gpus) + 1
                   /\ Last(gpus').vram = DivMiB(d.recommendedMaxWorkingSetSize)
                   /\ io_calls' = <<>>
                   /\ pc' = "mtl_extract"
              ELSE /\ pc' = "io_matching"
                   /\ gpus' = gpus
    /\ (pc \in {"io_matching", "io_get_service"} /\ pc' = "mtl_push") => vram_value' = None
    /\ (pc = "io_scan") => vram_value' = C8_Lookup(io_result, properties)
    /\ (pc = "io_release") => vram_value' = vram_value
    /\ (pc = "mtl_push") =>
          /\ Len(gpus') = Len(gpus) + 1
          /\ Last(gpus').vram =
                IF vram_value.some THEN vram_value.v
                ELSE DivMiB(devices[Len(gpus) + 1].recommendedMaxWorkingSetSize)
    /\ (pc \in IoPcs \cup {"mtl_push"}) => (pc' # "done" /\ result' = NoResult)

\* C8: a unified-memory device gets vram = working set / 1,048,576 without any
\* registry call; otherwise the lookup returns the integer of the first of
\* "VRAM,totalMB", "VRAM", "VRAM,total" that holds one (as a u64), skipping keys
\* that are absent or hold something else, and vram is that integer, or
\* working set / 1,048,576 when the lookup gave nothing at any step; no step of
\* the lookup ends the call or sets an error.
C8_MetalVram == [][C8_Step]_vars

\* C8 witness: the lookup skipped the first key and returned the second
\* key's integer.
C8_Witness ==
    /\ pc = "mtl_push"
    /\ io_result = 0
    /\ vram_value = Some(AsU64(0 - 1))

\* The classification the rule list gives.
C9_Expected(lp, rm, loc) ==
    CASE lp                              -> "Integrated"
      [] ~lp /\ rm                       -> "Discrete"
      [] ~lp /\ ~rm /\ loc = "BuiltIn"   -> "Integrated"
      [] ~lp /\ ~rm /\ loc # "BuiltIn"   -> "Discrete"

\* C9: every record built by the Metal backend has the kind the rule list
\* gives for its device's (low-power, removable, location), first match
\* winning, and so never Virtual, CPU or Unknown.
C9_MetalKind ==
    (target = "macos") =>
        \A i \in 1..Len(gpus) :
            /\ gpus[i].kind = C9_Expected(devices[i].isLowPower, devices[i].isRemovable,
                                          devices[i].location)
            /\ gpus[i].kind \in {"Integrated", "Discrete"}
            /\ (devices[i].isLowPower /\ devices[i].isRemovable) => gpus[i].kind = "Integrated"
            /\ (~devices[i].isLowPower /\ devices[i].isRemovable
                    /\ devices[i].location = "BuiltIn") => gpus[i].kind = "Discrete"

\* C9 witness: a returned record of a low-power, removable device.
C9_Witness ==
    /\ Done
    /\ target = "macos"
    /\ result.tag = "Ok"
    /\ \E i \in 1..Len(gpus) : devices[i].isLowPower /\ devices[i].isRemovable
                                  /\ devices[i].location = "External"

\* The sum of the sizes of the device-local heaps among the first n.
RECURSIVE C10_Sum(_, _)
C10_Sum(mem, n) ==
    IF n = 0 THEN [val |-> U64Zero, overflow |-> FALSE]
    ELSE LET rest == C10_Sum(mem, n - 1)
             h    == mem.memory_heaps[n]
             add  == U64Add(rest.val, h.size)
         IN  IF "DEVICE_LOCAL" \in h.flags
             THEN [val |-> add.val, overflow |-> rest.overflow \/ add.overflow]
             ELSE rest

\* C10: for every physical device the sum of the device-local heaps among the
\* first memory_heap_count fits 64 bits, the call does not abort, and vram is
\* that sum divided by 1,048,576.
C10_VkVram ==
    (target = "other") =>
        /\ result.tag # "Panic"
        /\ \A i \in 1..Len(gpus) :
             LET mem == physical_devices[i].memory
                 sum == C10_Sum(mem, mem.memory_heap_count)
             IN  /\ ~sum.overflow
                 /\ gpus[i].vram = DivMiB(sum.val)

====
